---- MODULE Spec2Model ----
(***************************************************************************)
(* A model of the OpenVR backend of amethyst-openvr (src/src/lib.rs): the  *)
(* tracker registry (wait / get_new_trackers / get_removed_trackers), the  *)
(* pose resolver (get_tracker_position), the render-model resolver         *)
(* (get_tracker_models) and the stereo target operations.                  *)
(*                                                                         *)
(* The native runtime (openvr::System, Compositor, RenderModels) is the    *)
(* environment: its device table and render-model cache are the variable   *)
(* `runtime`; the answers it gives per call (the poses of a wait, the      *)
(* result of a submission, the eye transforms) are drawn with \E.          *)
(***************************************************************************)
EXTENDS Integers, Sequences, FiniteSets, TLC

VARIABLES
    tracked_device_poses,   \* OpenVR.tracked_device_poses : Option<TrackedDevicePoses>
    registered_trackers,    \* OpenVR.registered_trackers  : Option<[bool; 16]>
    runtime,                \* the native runtime: device table and render-model cache
    result,                 \* the last call of the backend interface and what it returned
    panicked,               \* TRUE once a call has panicked (the frame loop is gone)
    announced,              \* history: slots returned as added and not since returned as removed
    frame_new,              \* history: slots returned by get_new_trackers since the last wait
    frame_removed,          \* history: slots returned by get_removed_trackers since the last wait
    resolved                \* history: for each watched slot, the terminal status
                            \* get_tracker_models last returned since the runtime changed

vars == <<tracked_device_poses, registered_trackers, runtime, result, panicked,
          announced, frame_new, frame_removed, resolved>>

history == <<announced, frame_new, frame_removed>>

-----------------------------------------------------------------------------
(* Bounds of the model *)

\* the device table has 16 slots in the code; the model keeps the loops and
\* shrinks the table
NumSlots == 3
\* the largest number of named components a render model declares
MaxComponents == 2

Slots == 0 .. (NumSlots - 1)

-----------------------------------------------------------------------------
(* Option<T> and Result<T, E> *)

None == [tag |-> "None"]
Some(x) == [tag |-> "Some", val |-> x]
IsSome(o) == o.tag = "Some"
IsNone(o) == o.tag = "None"

Ok(x) == [tag |-> "Ok", val |-> x]
Err == [tag |-> "Err"]
IsOk(r) == r.tag = "Ok"

\* the elements of a sequence
Range(s) == { s[k] : k \in 1 .. Len(s) }

\* the slots a returned Option<Vec<..>> holds, as a sequence (empty for None)
ListOf(o) == IF IsSome(o) THEN o.val ELSE << >>

-----------------------------------------------------------------------------
(* Pose samples: one TrackedDevicePose per slot *)

\* 3x4 device-to-absolute-tracking matrices, rows of four entries
IdentityPose == << <<1, 0, 0, 0>>, <<0, 1, 0, 0>>, <<0, 0, 1, 0>> >>
\* a quarter turn about z, translated
QuarterTurnZ == << <<0, -1, 0, 1>>, <<1, 0, 0, 2>>, <<0, 0, 1, 3>> >>
\* a third of a turn about (1,1,1), translated
ThirdTurn == << <<0, 0, 1, -1>>, <<1, 0, 0, 0>>, <<0, 1, 0, 2>> >>
\* a half turn about x
HalfTurnX == << <<1, 0, 0, 0>>, <<0, -1, 0, 1>>, <<0, 0, -1, 0>> >>

Matrices == { IdentityPose, QuarterTurnZ, ThirdTurn, HalfTurnX }

\* the velocity and the angular velocity a device has in each of these poses
Velocity(m) == IF m = IdentityPose THEN <<0, 0, 0>> ELSE <<1, 0, -1>>
AngularVelocity(m) == IF m = IdentityPose THEN <<0, 0, 0>> ELSE <<0, 2, 0>>

ZeroVec == <<0, 0, 0>>

Sample(c, ok, m, v, av) ==
    [connected |-> c, valid |-> ok, matrix |-> m, velocity |-> v, angular |-> av]

\* a slot nothing is plugged into
Idle == Sample(FALSE, FALSE, IdentityPose, ZeroVec, ZeroVec)
\* a connected device at rest at the origin
AtRest == Sample(TRUE, TRUE, IdentityPose, ZeroVec, ZeroVec)

\* snapshots that differ in which slots are connected
ConnectivitySnapshots == [Slots -> {Idle, AtRest}]

\* snapshots in which slot 0 carries any sample and the other slots are idle
PoseSnapshots ==
    { [s \in Slots |->
          IF s = 0 THEN Sample(c, ok, m, Velocity(m), AngularVelocity(m)) ELSE Idle] :
        c \in BOOLEAN, ok \in BOOLEAN, m \in Matrices }

Snapshots == ConnectivitySnapshots \cup PoseSnapshots

\* TrackedDevicePose::device_is_connected
device_is_connected(pose) == pose.connected

\* the slots a snapshot shows connected
Connected(poses) == { s \in Slots : device_is_connected(poses[s]) }

-----------------------------------------------------------------------------
(* Numbers of the pose: f32 values of the form sgn * sqrt(sq) / 2, which is *)
(* what the quaternion extraction produces from integer matrix entries      *)

Zero == [sgn |-> 0, sq |-> 0]

\* (f32::max(0.0, x)).sqrt() / 2.0
HalfRoot(x) == IF x > 0 THEN [sgn |-> 1, sq |-> x] ELSE Zero

\* fn copysign(a, b): 0.0 when b == 0.0, else a.abs() * b.signum()
copysign(a, b) ==
    IF b = 0
        THEN Zero
        ELSE IF a.sq = 0
            THEN Zero
            ELSE [sgn |-> IF b > 0 THEN 1 ELSE -1, sq |-> a.sq]

\* the translation of a device-to-absolute matrix: p = [m[0][3], m[1][3], m[2][3]]
Translation(m) == << m[1][4], m[2][4], m[3][4] >>

\* the quaternion (w, x, y, z) get_tracker_position extracts from the 3x3 block
ExtractQuat(m) ==
    LET q0 == HalfRoot(1 + m[1][1] + m[2][2] + m[3][3])
        q1 == HalfRoot(1 + m[1][1] - m[2][2] - m[3][3])
        q2 == HalfRoot(1 - m[1][1] + m[2][2] - m[3][3])
        q3 == HalfRoot(1 - m[1][1] - m[2][2] + m[3][3])
    IN  << q0,
           copysign(q1, m[3][2] - m[2][3]),
           copysign(q2, m[1][3] - m[3][1]),
           copysign(q3, m[2][1] - m[1][2]) >>

PositionData(p, q, v, av, ok) ==
    [position |-> p, rotation |-> q, velocity |-> v,
     angular_velocity |-> av, valid |-> ok]

\* a default pose with the identity rotation
IdentityQuatPose ==
    PositionData(ZeroVec, <<[sgn |-> 1, sq |-> 4], Zero, Zero, Zero>>,
                 ZeroVec, ZeroVec, FALSE)

\* the pose returned while no snapshot exists
ZeroPose == PositionData(ZeroVec, <<Zero, Zero, Zero, Zero>>, ZeroVec, ZeroVec, FALSE)

\* the pose resolved from one sample of a snapshot
ResolvePose(pose) ==
    PositionData(Translation(pose.matrix), ExtractQuat(pose.matrix),
                 pose.velocity, pose.angular,
                 device_is_connected(pose) /\ pose.valid)

-----------------------------------------------------------------------------
(* The native runtime: device table and render-model cache *)

\* the parts the cache knows: 0 is the render model a device names, k > 0 is
\* the render model of its k-th named component
Parts == 0 .. MaxComponents
WholeModel == 0

\* a part is not resident yet, failed to load, or is resident; a resident
\* model has no diffuse texture, or one that is loading, failed or resident
PartStates ==
    { [model |-> "pending", texture |-> "none"],
      [model |-> "failed", texture |-> "none"] }
    \cup { [model |-> "ready", texture |-> t] :
             t \in {"none", "pending", "failed", "ready"} }

Resident == [model |-> "ready", texture |-> "ready"]

\* the caches of a render model that declares `count` components: the parts
\* it does not have are left resident
Caches(count) ==
    { c \in [Parts -> PartStates] : \A k \in Parts : k > count => c[k] = Resident }

\* named: the slots whose Prop_RenderModelName_String resolves
\* hmds: the slots whose device class is HMD
\* component_count: the named components the render model declares
\* nameless: the component (1-based) whose name lookup fails, 0 for none
\* cache: the load state of every part
Runtime(named, hmds, count, nameless, cache) ==
    [named |-> named, hmds |-> hmds, component_count |-> count,
     nameless |-> nameless, cache |-> cache]

\* System::string_tracked_device_property(index, Prop_RenderModelName_String)
string_tracked_device_property(index) ==
    IF index \in runtime.named THEN Ok(WholeModel) ELSE Err

\* System::tracked_device_class(index) == TrackedDeviceClass::HMD
is_hmd(index) == index \in runtime.hmds

\* RenderModels::component_count(name)
component_count(name) == runtime.component_count

\* RenderModels::component_name(name, n), n counted from 0
component_name(name, n) ==
    IF runtime.nameless = n + 1 THEN None ELSE Some(n + 1)

\* RenderModels::load_render_model(name)
load_render_model(part) ==
    CASE runtime.cache[part].model = "failed" -> Err
      [] runtime.cache[part].model = "pending" -> Ok(None)
      [] OTHER -> Ok(Some(part))

\* RenderModel::diffuse_texture_id
diffuse_texture_id(part) ==
    IF runtime.cache[part].texture = "none" THEN None ELSE Some(part)

\* RenderModels::load_texture(id)
load_texture(part) ==
    CASE runtime.cache[part].texture = "failed" -> Err
      [] runtime.cache[part].texture = "pending" -> Ok(None)
      [] OTHER -> Ok(Some(part))

-----------------------------------------------------------------------------
(* The render-model resolver *)

ModelInfo(name, tex) ==
    [component_name |-> Some(name), geometry |-> name, texture |-> tex]

\* a single-part load that does not wait for a texture that is loading
LoadModelSkipsTexture(part) ==
    LET loaded == load_render_model(part) IN
    IF ~IsOk(loaded)
        THEN Err
        ELSE IF IsNone(loaded.val)
            THEN Ok(None)
            ELSE IF IsSome(diffuse_texture_id(part))
                THEN IF IsOk(load_texture(part))
                    THEN IF IsSome(load_texture(part).val)
                        THEN Ok(Some(ModelInfo(part, Some(part))))
                        ELSE Ok(Some(ModelInfo(part, None)))
                    ELSE Ok(Some(ModelInfo(part, None)))
                ELSE Ok(Some(ModelInfo(part, None)))

\* fn load_model
load_model(part) ==
    LET loaded == load_render_model(part) IN
    IF ~IsOk(loaded)
        THEN Err
        ELSE IF IsNone(loaded.val)
            THEN Ok(None)
            ELSE IF IsSome(diffuse_texture_id(part))
                THEN IF IsOk(load_texture(part))
                    THEN IF IsSome(load_texture(part).val)
                        THEN Ok(Some(ModelInfo(part, Some(part))))
                        ELSE Ok(None)
                    ELSE Ok(Some(ModelInfo(part, None)))
                ELSE Ok(Some(ModelInfo(part, None)))

Pending == [tag |-> "Pending"]
Unavailable == [tag |-> "Unavailable"]
Available(infos) == [tag |-> "Available", val |-> infos]
\* not a status: the call panicked
Panic == [tag |-> "Panic"]

\* a whole-model load that leaves the component name in place
GetModelFullKeepsName(name) ==
    LET maybe_model_info == load_model(name) IN
    IF IsOk(maybe_model_info)
        THEN IF IsSome(maybe_model_info.val)
            THEN Available(<< maybe_model_info.val.val >>)
            ELSE Pending
        ELSE Unavailable

\* fn get_model_full
get_model_full(name) ==
    LET maybe_model_info == load_model(name) IN
    IF IsOk(maybe_model_info)
        THEN IF IsSome(maybe_model_info.val)
            THEN Available(<< [maybe_model_info.val.val EXCEPT !.component_name = None] >>)
            ELSE Pending
        ELSE Unavailable

\* (0..component_count).map(component_name .. unwrap).map(load_model).collect():
\* the components in order, a failed name lookup panics, the first Err ends it
RECURSIVE CollectLoads(_, _, _, _)
CollectLoads(name, n, count, models) ==
    IF n = count
        THEN Ok(models)
        ELSE IF IsNone(component_name(name, n))
            THEN Panic
            ELSE LET loaded == load_model(component_name(name, n).val) IN
                 IF IsOk(loaded)
                     THEN CollectLoads(name, n + 1, count, Append(models, loaded.val))
                     ELSE Err

\* an aggregation that publishes the components that are ready
RECURSIVE CollectReadyInfos(_, _, _)
CollectReadyInfos(models, k, infos) ==
    IF k > Len(models)
        THEN Available(infos)
        ELSE IF IsSome(models[k])
            THEN CollectReadyInfos(models, k + 1, Append(infos, models[k].val))
            ELSE CollectReadyInfos(models, k + 1, infos)

\* for maybe_model in models: push, or return Pending at the first None
RECURSIVE CollectInfos(_, _, _)
CollectInfos(models, k, infos) ==
    IF k > Len(models)
        THEN Available(infos)
        ELSE IF IsSome(models[k])
            THEN CollectInfos(models, k + 1, Append(infos, models[k].val))
            ELSE Pending

\* fn get_model_components
get_model_components(name) ==
    IF component_count(name) = 0
        THEN Unavailable
        ELSE LET load_result == CollectLoads(name, 0, component_count(name), << >>) IN
             CASE load_result = Panic -> Panic
               [] IsOk(load_result) -> CollectInfos(load_result.val, 1, << >>)
               [] OTHER -> Unavailable

\* a resolver that only answers for a slot the registry has registered
TrackerModelsOfRegistered(index) ==
    IF IsNone(registered_trackers) \/ ~IsOk(string_tracked_device_property(index))
        THEN Unavailable
        ELSE IF ~registered_trackers.val[index]
            THEN Unavailable
            ELSE LET status == get_model_components(WholeModel)
                 IN  IF status = Unavailable THEN get_model_full(WholeModel) ELSE status

\* a resolver that goes to the cache without the render-model name property
TrackerModelsIgnoresProperty(index) ==
    LET status == get_model_components(WholeModel)
    IN  IF status = Unavailable THEN get_model_full(WholeModel) ELSE status

\* fn get_tracker_models, as a function of the runtime's state
TrackerModels(index) ==
    IF ~IsOk(string_tracked_device_property(index))
        THEN Unavailable
        ELSE LET render_model_name == string_tracked_device_property(index).val
                 status == get_model_components(render_model_name)
             IN  IF status = Unavailable
                     THEN get_model_full(render_model_name)
                     ELSE status

\* a maximum that keeps its first argument
KeepFirst(a, b) == a

Max(a, b) == IF a >= b THEN a ELSE b

\* fn get_tracker_capabilities
get_tracker_capabilities(index) ==
    [render_model_components |->
        IF IsOk(string_tracked_device_property(index))
            THEN Max(component_count(string_tracked_device_property(index).val), 1)
            ELSE 0,
     is_camera |-> is_hmd(index)]

-----------------------------------------------------------------------------
(* The calls of the backend interface (impl XRBackend for OpenVR) *)

Call(op, arg, ret, info) == [op |-> op, arg |-> arg, ret |-> ret, info |-> info]

NoCall == Call("init", None, None, None)

\* the slots of a list of slots
SlotsOf(o) == Range(ListOf(o))
\* the slots of a list of (slot, capabilities)
NewSlotsOf(o) == { e[1] : e \in Range(ListOf(o)) }

\* a push at the front of the list
PushFront(data, index) ==
    IF IsNone(data) THEN Some(<< index >>) ELSE Some(<< index >> \o data.val)

\* tracker_data.push(index), after `if tracker_data.is_none() { Some(Vec::new()) }`
Push(data, index) ==
    IF IsNone(data) THEN Some(<< index >>) ELSE Some(Append(data.val, index))

\* a wait that merges: a slot the new poses show idle keeps its old sample
MergedPoses(previous, answer) ==
    IF IsOk(answer)
        THEN IF IsSome(previous)
            THEN Some([s \in Slots |->
                         IF device_is_connected(answer.val[s])
                             THEN answer.val[s] ELSE previous.val[s]])
            ELSE Some(answer.val)
        ELSE previous

\* if let Ok(poses) = wait_get_poses() { tracked_device_poses = Some(poses.render) }
\* else { warn!(..) }
KeptPoses(previous, answer) ==
    IF IsOk(answer) THEN Some(answer.val) ELSE previous

\* a wait that also forgets which slots were registered
WaitForgetsRegistered(pool) ==
    /\ ~panicked
    /\ \E answer \in {Err} \cup { Ok(p) : p \in pool } :
        /\ tracked_device_poses' = KeptPoses(tracked_device_poses, answer)
        /\ result' = Call("wait", None, None, answer)
        /\ registered_trackers' = IF IsOk(answer) THEN None ELSE registered_trackers
    /\ frame_new' = {}
    /\ frame_removed' = {}
    /\ UNCHANGED <<runtime, panicked, announced, resolved>>

\* fn wait: the queued events are polled and printed, which changes nothing
\* of the backend; then the render poses of a successful wait_get_poses are
\* kept. `answer` is what the compositor answered
wait(pool) ==
    /\ ~panicked
    /\ \E answer \in {Err} \cup { Ok(p) : p \in pool } :
        /\ tracked_device_poses' = KeptPoses(tracked_device_poses, answer)
        /\ result' = Call("wait", None, None, answer)
    /\ frame_new' = {}
    /\ frame_removed' = {}
    /\ UNCHANGED <<registered_trackers, runtime, panicked, announced, resolved>>

\* a loop that forgets to ask whether the slot is connected
RECURSIVE NewLoopIgnoresConnection(_, _, _, _)
NewLoopIgnoresConnection(i, registered, poses, tracker_data) ==
    IF i = NumSlots
        THEN [registered |-> registered, data |-> tracker_data]
        ELSE IF ~registered[i]
            THEN NewLoopIgnoresConnection(i + 1, [registered EXCEPT ![i] = TRUE], poses,
                                          Push(tracker_data, i))
            ELSE NewLoopIgnoresConnection(i + 1, registered, poses, tracker_data)

\* a loop that stops at the first slot it reports
RECURSIVE NewLoopStopsAtFirst(_, _, _, _)
NewLoopStopsAtFirst(i, registered, poses, tracker_data) ==
    IF i = NumSlots
        THEN [registered |-> registered, data |-> tracker_data]
        ELSE IF ~registered[i] /\ device_is_connected(poses[i])
            THEN [registered |-> [registered EXCEPT ![i] = TRUE],
                  data |-> Push(tracker_data, i)]
            ELSE NewLoopStopsAtFirst(i + 1, registered, poses, tracker_data)

\* get_new_trackers with a registered-set: for i in 0..16, report and register
\* the slots that are connected and not registered
RECURSIVE NewLoop(_, _, _, _)
NewLoop(i, registered, poses, tracker_data) ==
    IF i = NumSlots
        THEN [registered |-> registered, data |-> tracker_data]
        ELSE IF ~registered[i] /\ device_is_connected(poses[i])
            THEN NewLoop(i + 1, [registered EXCEPT ![i] = TRUE], poses,
                         Push(tracker_data, i))
            ELSE NewLoop(i + 1, registered, poses, tracker_data)

\* a first call that lists the connected slots and registers none
RECURSIVE FirstLoopRegistersNone(_, _, _, _)
FirstLoopRegistersNone(i, trackers, poses, tracker_data) ==
    IF i = NumSlots
        THEN [registered |-> trackers, data |-> Some(tracker_data)]
        ELSE IF device_is_connected(poses[i])
            THEN FirstLoopRegistersNone(i + 1, trackers, poses, Append(tracker_data, i))
            ELSE FirstLoopRegistersNone(i + 1, trackers, poses, tracker_data)

\* get_new_trackers without a registered-set: for i in 0..16, copy the
\* connectivity and list the connected slots
RECURSIVE FirstLoop(_, _, _, _)
FirstLoop(i, trackers, poses, tracker_data) ==
    IF i = NumSlots
        THEN [registered |-> trackers, data |-> Some(tracker_data)]
        ELSE IF device_is_connected(poses[i])
            THEN FirstLoop(i + 1, [trackers EXCEPT ![i] = TRUE], poses,
                           Append(tracker_data, i))
            ELSE FirstLoop(i + 1, [trackers EXCEPT ![i] = FALSE], poses, tracker_data)

NoneRegistered == [s \in Slots |-> FALSE]

\* the registered-set and the slots get_new_trackers comes to, before the
\* capabilities are attached
NewTrackers ==
    IF IsSome(registered_trackers)
        THEN IF IsSome(tracked_device_poses)
            THEN NewLoop(0, registered_trackers.val, tracked_device_poses.val, None)
            ELSE [registered |-> registered_trackers.val, data |-> None]
        ELSE IF IsSome(tracked_device_poses)
            THEN FirstLoop(0, NoneRegistered, tracked_device_poses.val, << >>)
            ELSE [registered |-> NoneRegistered, data |-> Some(<< >>)]

\* .map(|trackers| trackers.into_iter().map(|id| (id, capabilities(id))).collect())
WithCapabilities(data) ==
    IF IsNone(data)
        THEN None
        ELSE Some([k \in 1 .. Len(data.val) |->
                     << data.val[k], get_tracker_capabilities(data.val[k]) >>])

\* fn get_new_trackers
get_new_trackers ==
    /\ ~panicked
    /\ LET out == NewTrackers
           ret == WithCapabilities(out.data)
       IN  /\ registered_trackers' = Some(out.registered)
           /\ result' = Call("get_new_trackers", None, ret,
                             [first |-> IsNone(registered_trackers)])
           /\ announced' = announced \cup NewSlotsOf(ret)
           /\ frame_new' = frame_new \cup NewSlotsOf(ret)
    /\ UNCHANGED <<tracked_device_poses, runtime, panicked, frame_removed, resolved>>

\* a loop that unregisters every registered slot, connected or not
RECURSIVE RemovedLoopIgnoresConnection(_, _, _, _)
RemovedLoopIgnoresConnection(i, registered, poses, removed_trackers) ==
    IF i = NumSlots
        THEN [registered |-> registered, data |-> removed_trackers]
        ELSE IF registered[i]
            THEN RemovedLoopIgnoresConnection(i + 1, [registered EXCEPT ![i] = FALSE],
                                              poses, Push(removed_trackers, i))
            ELSE RemovedLoopIgnoresConnection(i + 1, registered, poses, removed_trackers)

\* a loop that reports a removed slot and leaves it registered
RECURSIVE RemovedLoopKeepsBit(_, _, _, _)
RemovedLoopKeepsBit(i, registered, poses, removed_trackers) ==
    IF i = NumSlots
        THEN [registered |-> registered, data |-> removed_trackers]
        ELSE IF registered[i] /\ ~device_is_connected(poses[i])
            THEN RemovedLoopKeepsBit(i + 1, registered, poses, Push(removed_trackers, i))
            ELSE RemovedLoopKeepsBit(i + 1, registered, poses, removed_trackers)

\* get_removed_trackers with a registered-set: for i in 0..16, report and
\* unregister the slots that are registered and not connected
RECURSIVE RemovedLoop(_, _, _, _)
RemovedLoop(i, registered, poses, removed_trackers) ==
    IF i = NumSlots
        THEN [registered |-> registered, data |-> removed_trackers]
        ELSE IF registered[i] /\ ~device_is_connected(poses[i])
            THEN RemovedLoop(i + 1, [registered EXCEPT ![i] = FALSE], poses,
                             Push(removed_trackers, i))
            ELSE RemovedLoop(i + 1, registered, poses, removed_trackers)

\* a get_removed_trackers that creates the registered-set when there is none
RemovedTrackersInitializes ==
    IF IsSome(registered_trackers)
        THEN IF IsSome(tracked_device_poses)
            THEN LET out == RemovedLoop(0, registered_trackers.val,
                                        tracked_device_poses.val, None)
                 IN  [registered |-> Some(out.registered), data |-> out.data]
            ELSE [registered |-> registered_trackers, data |-> None]
        ELSE [registered |-> Some(NoneRegistered), data |-> None]

\* the registered-set (an Option) and the list get_removed_trackers comes to
RemovedTrackers ==
    IF IsSome(registered_trackers)
        THEN IF IsSome(tracked_device_poses)
            THEN LET out == RemovedLoop(0, registered_trackers.val,
                                        tracked_device_poses.val, None)
                 IN  [registered |-> Some(out.registered), data |-> out.data]
            ELSE [registered |-> registered_trackers, data |-> None]
        ELSE [registered |-> None, data |-> None]

\* fn get_removed_trackers
get_removed_trackers ==
    /\ ~panicked
    /\ LET out == RemovedTrackers
       IN  /\ registered_trackers' = out.registered
           /\ result' = Call("get_removed_trackers", None, out.data,
                             [initialized |-> IsSome(registered_trackers),
                              after_first |-> /\ result.op = "get_new_trackers"
                                              /\ result.info.first])
           /\ announced' = announced \ SlotsOf(out.data)
           /\ frame_removed' = frame_removed \cup SlotsOf(out.data)
    /\ UNCHANGED <<tracked_device_poses, runtime, panicked, frame_new, resolved>>

\* fn get_tracker_position: poses[index as usize] panics past the table
get_tracker_position ==
    /\ ~panicked
    /\ \E index \in 0 .. NumSlots :
        IF IsSome(tracked_device_poses)
            THEN IF index \in Slots
                THEN /\ result' = Call("get_tracker_position", index,
                                       ResolvePose(tracked_device_poses.val[index]),
                                       [sampled |-> {index}])
                     /\ panicked' = FALSE
                ELSE /\ result' = Call("get_tracker_position", index, Panic,
                                       [sampled |-> {}])
                     /\ panicked' = TRUE
            ELSE /\ result' = Call("get_tracker_position", index, ZeroPose,
                                   [sampled |-> {}])
                 /\ panicked' = FALSE
    /\ UNCHANGED <<tracked_device_poses, registered_trackers, runtime, history, resolved>>

\* a status after which the caller stops polling
Terminal(status) == status.tag \in {"Available", "Unavailable"}

\* fn get_tracker_models
get_tracker_models ==
    /\ ~panicked
    /\ \E index \in Slots :
        /\ result' = Call("get_tracker_models", index, TrackerModels(index),
                          [before |-> IF index \in DOMAIN resolved
                                          THEN resolved[index] ELSE None])
        /\ panicked' = (TrackerModels(index) = Panic)
        /\ resolved' = IF index \in DOMAIN resolved /\ Terminal(TrackerModels(index))
                           THEN [resolved EXCEPT ![index] = Some(TrackerModels(index))]
                           ELSE resolved
    /\ UNCHANGED <<tracked_device_poses, registered_trackers, runtime, history>>

\* System::eye_to_head_transform(eye): a 3x4 matrix with the 3x3 block
\* scale * I and the translation (offset, 0, 0); the left eye sits at -1 and
\* the right eye at 1, and a runtime may answer with a scale of 0
EyeToHead(eye, scale) ==
    [scale |-> scale, offset |-> IF eye = "Left" THEN 0 - 1 ELSE 1]

Scales == {0, 1}

\* array_to_matrix(extend_matrix_array(t)).invert(): None when the
\* determinant is zero
Invert(t) ==
    IF t.scale = 0
        THEN None
        ELSE Some([scale |-> t.scale, offset |-> 0 - t.offset])

\* the (near, far) clip planes the engine asks for
ClipPlanes == { <<1, 10>>, <<1, 100>> }

\* System::recommended_render_target_size, the same for both eyes
TargetSize == <<2, 2>>

TargetInfo(view_offset, projection) ==
    [size |-> TargetSize, view_offset |-> view_offset, projection |-> projection]

\* fn get_gl_target_info: both inverses are unwrapped before anything is built
get_gl_target_info ==
    /\ ~panicked
    /\ \E left \in Scales, right \in Scales, clip \in ClipPlanes :
        LET left_trans == Invert(EyeToHead("Left", left))
            right_trans == Invert(EyeToHead("Right", right))
        IN  IF IsNone(left_trans) \/ IsNone(right_trans)
                THEN /\ result' = Call("get_gl_target_info", clip, Panic,
                                       << left, right >>)
                     /\ panicked' = TRUE
                ELSE /\ result' = Call("get_gl_target_info", clip,
                            << TargetInfo(left_trans.val, << "Left", clip >>),
                               TargetInfo(right_trans.val, << "Right", clip >>) >>,
                            << left, right >>)
                     /\ panicked' = FALSE
    /\ UNCHANGED <<tracked_device_poses, registered_trackers, runtime, history, resolved>>

\* texture handles the engine submits
Handles == { 7, 9 }

\* an eye mapping with the eyes swapped
EyeOfSwapped(target_index) ==
    CASE target_index = 0 -> Some("Right")
      [] target_index = 1 -> Some("Left")
      [] OTHER -> None

\* target_index: 0 => Eye::Left, 1 => Eye::Right, _ => return
EyeOf(target_index) ==
    CASE target_index = 0 -> Some("Left")
      [] target_index = 1 -> Some("Right")
      [] OTHER -> None

\* fn submit_gl_target; `answer` is what Compositor::submit answered
submit_gl_target ==
    /\ ~panicked
    /\ \E target_index \in 0 .. 2, gl_target \in Handles, answer \in {"Ok", "Err"} :
        result' = Call("submit_gl_target", << target_index, gl_target >>, None,
                       IF IsSome(EyeOf(target_index))
                           THEN [submitted |-> Some(<< EyeOf(target_index).val, gl_target >>),
                                 answer |-> answer]
                           ELSE [submitted |-> None, answer |-> "none"])
    /\ UNCHANGED <<tracked_device_poses, registered_trackers, runtime, panicked, history,
                   resolved>>

-----------------------------------------------------------------------------
(* The runtime loads render models and textures on its own *)

\* what a part that is loading may become
Progress(state) ==
    CASE state.model = "pending" ->
            { [model |-> "failed", texture |-> "none"],
              [model |-> "ready", texture |-> "none"],
              [model |-> "ready", texture |-> "pending"] }
      [] state.model = "ready" /\ state.texture = "pending" ->
            { [model |-> "ready", texture |-> "failed"],
              [model |-> "ready", texture |-> "ready"] }
      [] OTHER -> {}

RuntimeProgress ==
    /\ ~panicked
    /\ \E part \in 0 .. runtime.component_count :
        \E next \in Progress(runtime.cache[part]) :
            /\ runtime' = [runtime EXCEPT !.cache[part] = next]
            /\ result' = Call("runtime_progress", part, None, None)
    /\ resolved' = [s \in DOMAIN resolved |-> None]
    /\ UNCHANGED <<tracked_device_poses, registered_trackers, panicked, history>>

-----------------------------------------------------------------------------
(* Specifications *)

\* OpenVR::init: no snapshot, no registered-set
InitBackend ==
    /\ tracked_device_poses = None
    /\ registered_trackers = None
    /\ result = NoCall
    /\ panicked = FALSE
    /\ announced = {}
    /\ frame_new = {}
    /\ frame_removed = {}

AllResident == [k \in Parts |-> Resident]

\* the runtimes of the frame loop: a device table whose last slot exposes no
\* render-model name and whose slot 0 is the head-mounted display, with
\*   a monolithic render model that is resident,
\*   a render model whose last component is still loading its texture,
\*   a render model whose first component failed to load,
\*   a render model whose last component has no name
FrameRuntimes ==
    LET named == Slots \ {NumSlots - 1} IN
    { Runtime(named, {0}, 0, 0, AllResident),
      Runtime(named, {0}, MaxComponents, 0,
              [AllResident EXCEPT ![MaxComponents] = [model |-> "ready", texture |-> "pending"]]),
      Runtime(named, {0}, MaxComponents, 0,
              [AllResident EXCEPT ![1] = [model |-> "failed", texture |-> "none"]]),
      Runtime(named, {0}, MaxComponents, MaxComponents, AllResident) }

\* no slot is watched
Unwatched == [s \in {} |-> None]

Init ==
    /\ InitBackend
    /\ runtime \in FrameRuntimes
    /\ resolved = Unwatched

\* the frame loop: the calls of the backend interface in any order, against
\* a runtime whose device table and cache stay as they are
Next ==
    \/ wait(Snapshots)
    \/ get_new_trackers
    \/ get_removed_trackers
    \/ get_tracker_position
    \/ get_tracker_models
    \/ get_gl_target_info
    \/ submit_gl_target

Spec == Init /\ [][Next]_vars

\* the runtimes of the render-model resolver: any device naming, any number
\* of components, any cache
ModelRuntimes ==
    { Runtime(named, {}, cc[1], nameless, cc[2]) :
        named \in SUBSET Slots,
        cc \in UNION { { << count, cache >> : cache \in Caches(count) } :
                         count \in 0 .. MaxComponents },
        nameless \in 0 .. MaxComponents }

ModelInit ==
    /\ InitBackend
    /\ runtime \in { r \in ModelRuntimes : r.nameless <= r.component_count }
    /\ resolved = Unwatched

\* the render-model resolver polled while the runtime loads
ModelNext ==
    \/ get_tracker_models
    \/ RuntimeProgress

ModelSpec == ModelInit /\ [][ModelNext]_vars

\* the runtimes the frame loop polls for render models: those of the frame
\* loop and a monolithic render model that is not resident yet
ResolveRuntimes ==
    FrameRuntimes
    \cup { Runtime(Slots \ {NumSlots - 1}, {0}, 0, 0,
                   [AllResident EXCEPT ![WholeModel] = [model |-> "pending", texture |-> "none"]]) }

\* the slots whose render models the caller keeps polling: one with a
\* render-model name and the one without
Watched == {0, NumSlots - 1}

ResolveInit ==
    /\ InitBackend
    /\ runtime \in ResolveRuntimes
    /\ resolved = [s \in Watched |-> None]

\* the registry and the render-model resolver polled frame after frame while
\* the runtime loads
ResolveNext ==
    \/ wait(ConnectivitySnapshots)
    \/ get_new_trackers
    \/ get_removed_trackers
    \/ get_tracker_position
    \/ get_tracker_models
    \/ RuntimeProgress

ResolveSpec == ResolveInit /\ [][ResolveNext]_vars

-----------------------------------------------------------------------------
(* Properties of the tracker registry *)

IsNew == result.op = "get_new_trackers"
IsRemoved == result.op = "get_removed_trackers"

\* the slots of the list get_new_trackers returned, in the order returned
NewSlotList(ret) == [k \in 1 .. Len(ListOf(ret)) |-> ListOf(ret)[k][1]]

StrictlyAscending(list) ==
    \A j, k \in 1 .. Len(list) : j < k => list[j] < list[k]

\* C1: in any interleaving of wait, get_new_trackers and get_removed_trackers,
\* get_new_trackers never returns a slot it has returned and that
\* get_removed_trackers has not returned since, and get_removed_trackers only
\* returns slots that get_new_trackers has returned since their last removal.
C1_AddedRemovedAlternate ==
    [][ /\ (result'.op = "get_new_trackers"
              => NewSlotsOf(result'.ret) \cap announced = {})
        /\ (result'.op = "get_removed_trackers"
              => SlotsOf(result'.ret) \subseteq announced) ]_vars

\* a removal is reported while another slot stays announced
C1_Witness ==
    /\ IsRemoved
    /\ SlotsOf(result.ret) # {}
    /\ announced # {}

\* C2: between two waits, no slot is returned both by get_new_trackers and by
\* get_removed_trackers, whichever is called first.
C2_FrameExclusive == frame_new \cap frame_removed = {}

\* both calls returned slots within one frame
C2_Witness ==
    /\ frame_new # {}
    /\ frame_removed # {}

\* C3: the first get_new_trackers call made with a snapshot present returns
\* exactly the connected slots and sets the registered-set to the snapshot's
\* connectivity; get_removed_trackers returns None while the registered-set is
\* not initialized, and None when it directly follows that first call.
C3_FirstCall ==
    /\ (IsNew /\ result.info.first /\ IsSome(tracked_device_poses)
          => /\ IsSome(result.ret)
             /\ NewSlotsOf(result.ret) = Connected(tracked_device_poses.val)
             /\ Len(result.ret.val) = Cardinality(Connected(tracked_device_poses.val))
             /\ registered_trackers =
                   Some([s \in Slots |-> tracked_device_poses.val[s].connected]))
    /\ (IsRemoved /\ ~result.info.initialized
          => /\ result.ret = None
             /\ registered_trackers = None)
    /\ (IsRemoved /\ result.info.after_first => result.ret = None)

\* get_removed_trackers directly follows a first call that found two slots
C3_Witness ==
    /\ IsRemoved
    /\ result.info.after_first
    /\ Cardinality(announced) >= 2
    /\ Cardinality(announced) < NumSlots

\* C4: every list get_new_trackers or get_removed_trackers returns, on the
\* first call and later, is in strictly ascending slot order.
C4_Ascending ==
    /\ (IsNew => StrictlyAscending(NewSlotList(result.ret)))
    /\ (IsRemoved => StrictlyAscending(ListOf(result.ret)))

\* a later get_new_trackers call returned two slots or more
C4_Witness ==
    /\ IsNew
    /\ ~result.info.first
    /\ Len(ListOf(result.ret)) >= 2

\* C5: a wait whose native wait fails leaves the snapshot as it was (absent if
\* it was absent) and the registered-set unchanged and returns; a wait that
\* succeeds makes the snapshot the delivered poses in every slot.
C5_WaitKeepsOrReplaces ==
    [][ result'.op = "wait"
          => /\ registered_trackers' = registered_trackers
             /\ ~panicked'
             /\ (~IsOk(result'.info) => tracked_device_poses' = tracked_device_poses)
             /\ (IsOk(result'.info)
                   => /\ IsSome(tracked_device_poses')
                      /\ \A s \in Slots :
                           tracked_device_poses'.val[s] = result'.info.val[s]) ]_vars

\* a wait failed while a snapshot with a connected device was held
C5_Witness ==
    /\ result.op = "wait"
    /\ ~IsOk(result.info)
    /\ IsSome(tracked_device_poses)
    /\ Connected(tracked_device_poses.val) # {}
    /\ IsSome(registered_trackers)

-----------------------------------------------------------------------------
(* Properties of the render-model resolver *)

IsModels == result.op = "get_tracker_models"

\* the components the render model declares
Declared == 1 .. runtime.component_count

\* the part's model, or the texture of its resident model, is still loading
InFlight(part) ==
    \/ runtime.cache[part].model = "pending"
    \/ runtime.cache[part].model = "ready" /\ runtime.cache[part].texture = "pending"

\* the load of the part's model reports an error
HardFailed(part) == runtime.cache[part].model = "failed"

\* get_tracker_models returned a status for a device with a render-model
\* name whose model declares components
ComponentCall ==
    /\ IsModels
    /\ result.ret # Panic
    /\ result.arg \in runtime.named
    /\ runtime.component_count > 0

\* the component names an Available list carries, in the order listed
NamesOf(infos) == [k \in 1 .. Len(infos) |-> infos[k].component_name]

C7_FailureIsUnavailable ==
    ComponentCall /\ (\E k \in Declared : HardFailed(k)) => result.ret = Unavailable

\* C8: get_tracker_models is Unavailable for a device whose render-model name
\* property does not resolve, whatever the cache holds.
C8_NoNameIsUnavailable ==
    IsModels /\ result.arg \notin runtime.named => result.ret = Unavailable

\* the property does not resolve while the cache has a component in flight
C8_Witness ==
    /\ IsModels
    /\ result.arg \notin runtime.named
    /\ runtime.component_count > 0
    /\ \E k \in Declared : InFlight(k)

-----------------------------------------------------------------------------
(* Properties of the frame loop *)

\* the per-frame calls, get_tracker_position for a slot of the device table
PerFrameCall ==
    \/ result.op \in { "wait", "get_new_trackers", "get_removed_trackers",
                       "get_tracker_models", "get_gl_target_info",
                       "submit_gl_target" }
    \/ result.op = "get_tracker_position" /\ result.arg \in Slots

\* C9: every per-frame call returns, whatever the runtime answers: none
\* panics.
C9_NoPanic == PerFrameCall => ~panicked /\ result.ret # Panic

\* C10: with no snapshot, get_tracker_position(n) returns the zero pose with
\* valid = false for every n, reads no sample and leaves the backend as it is.
C10_ZeroPose ==
    [][ result'.op = "get_tracker_position" /\ IsNone(tracked_device_poses)
          => /\ result'.ret # Panic
             /\ result'.ret.position = <<0, 0, 0>>
             /\ \A k \in 1 .. 4 :
                  result'.ret.rotation[k].sgn = 0 /\ result'.ret.rotation[k].sq = 0
             /\ Len(result'.ret.rotation) = 4
             /\ result'.ret.velocity = <<0, 0, 0>>
             /\ result'.ret.angular_velocity = <<0, 0, 0>>
             /\ result'.ret.valid = FALSE
             /\ result'.info.sampled = {}
             /\ ~panicked'
             /\ UNCHANGED <<tracked_device_poses, registered_trackers, runtime>> ]_vars

\* with no snapshot, the pose of an index past the device table was asked for
C10_Witness ==
    /\ result.op = "get_tracker_position"
    /\ IsNone(tracked_device_poses)
    /\ result.arg = NumSlots
    /\ IsSome(registered_trackers)

\* C11: submit_gl_target(0, h) hands h to the compositor for the left eye and
\* submit_gl_target(1, h) for the right eye; with any other index nothing is
\* submitted; the call returns and leaves the backend as it is, also when
\* the compositor answers with an error.
C11_SubmitMapsEyes ==
    [][ result'.op = "submit_gl_target"
          => /\ (result'.arg[1] = 0
                   => result'.info.submitted = Some(<< "Left", result'.arg[2] >>))
             /\ (result'.arg[1] = 1
                   => result'.info.submitted = Some(<< "Right", result'.arg[2] >>))
             /\ (result'.arg[1] \notin {0, 1} => result'.info.submitted = None)
             /\ ~panicked'
             /\ UNCHANGED <<tracked_device_poses, registered_trackers, runtime>> ]_vars

\* the compositor rejected a right-eye submission while a snapshot and a
\* registered-set were held
C11_Witness ==
    /\ result.op = "submit_gl_target"
    /\ result.arg[1] = 1
    /\ result.info.answer = "Err"
    /\ IsSome(tracked_device_poses)
    /\ IsSome(registered_trackers)
    /\ ~panicked

\* C12: while the runtime's device table and cache stay as they are, once
\* get_tracker_models(slot) has returned Available or Unavailable, every
\* later get_tracker_models(slot) returns that same status, whatever wait,
\* get_new_trackers, get_removed_trackers and get_tracker_position calls
\* come in between.
C12_TerminalStays ==
    IsModels /\ IsSome(result.info.before) => result.ret = result.info.before.val

\* a slot resolved to Available before is asked again once the registry has
\* a snapshot and has announced a slot
C12_Witness ==
    /\ IsModels
    /\ IsSome(result.info.before)
    /\ result.info.before.val.tag = "Available"
    /\ IsSome(tracked_device_poses)
    /\ announced # {}
    /\ frame_removed # {}


\* the integer square root
ISqrt(n) == CHOOSE r \in 0 .. n : r * r <= n /\ (r + 1) * (r + 1) > n

\* twice the product of two quaternion components, each given as
\* sgn * sqrt(sq) / 2
TwiceProduct(a, b) == a.sgn * b.sgn * ISqrt(a.sq * b.sq)

\* twice the rotation matrix of the quaternion (w, x, y, z):
\* 1 - 2(yy + zz), 2(xy - zw), 2(xz + yw) / 2(xy + zw), 1 - 2(xx + zz), ...
TwiceQuatToMatrix(q) ==
    LET w == q[1]
        x == q[2]
        y == q[3]
        z == q[4]
    IN  << << 2 - (y.sq + z.sq),
              TwiceProduct(x, y) - TwiceProduct(z, w),
              TwiceProduct(x, z) + TwiceProduct(y, w) >>,
           << TwiceProduct(x, y) + TwiceProduct(z, w),
              2 - (x.sq + z.sq),
              TwiceProduct(y, z) - TwiceProduct(x, w) >>,
           << TwiceProduct(x, z) - TwiceProduct(y, w),
              TwiceProduct(y, z) + TwiceProduct(x, w),
              2 - (x.sq + y.sq) >> >>

\* four times the squared norm of a quaternion
FourNormSquared(q) == q[1].sq + q[2].sq + q[3].sq + q[4].sq

\* a pose resolved from a sample of the current snapshot
IsSampled == result.op = "get_tracker_position" /\ result.info.sampled # {}

\* the matrix of the sample the last get_tracker_position resolved
SampledMatrix == tracked_device_poses.val[result.arg].matrix

\* C13: the quaternion get_tracker_position returns for a slot whose
\* transform holds a rotation matrix M is a unit quaternion, and its rotation
\* matrix is M again.
C13_QuatRoundTrip ==
    IsSampled
        => /\ FourNormSquared(result.ret.rotation) = 4
           /\ \A i \in 1 .. 3 : \A j \in 1 .. 3 :
                TwiceQuatToMatrix(result.ret.rotation)[i][j] = 2 * SampledMatrix[i][j]


\* C14 as stated: while no pose snapshot has been captured, the
\* registered-set is uninitialized.
C14_AsStated == IsNone(tracked_device_poses) => IsNone(registered_trackers)

\* C14: the registered-set is initialized by the first get_new_trackers call
\* and by no other operation; called before any snapshot was captured, that
\* call initializes it with every entry false and returns an empty list, and
\* as long as no snapshot has been captured every entry stays false.
C14_FirstNewInitializes ==
    [][ /\ (IsNone(registered_trackers) /\ result'.op = "get_new_trackers"
              => /\ IsSome(registered_trackers')
                 /\ (IsNone(tracked_device_poses)
                       => /\ registered_trackers'.val = NoneRegistered
                          /\ result'.ret = Some(<< >>)))
        /\ (IsNone(registered_trackers) /\ result'.op # "get_new_trackers"
              => IsNone(registered_trackers'))
        /\ (IsNone(tracked_device_poses') /\ IsSome(registered_trackers')
              => registered_trackers'.val = NoneRegistered) ]_vars

\* the first get_new_trackers call came before any snapshot was captured
C14_Witness ==
    /\ result.op = "get_new_trackers"
    /\ result.info.first
    /\ IsNone(tracked_device_poses)
    /\ registered_trackers = Some(NoneRegistered)


\* C15: in every step of every operation, an entry of the registered-set
\* goes from false to true only if its slot is connected in the current
\* snapshot and from true to false only if its slot is not connected in it
\* (the entries of a registered-set that is just being initialized count as
\* false before); with no snapshot no entry of an initialized registered-set
\* changes.
C15_EntriesFollowConnectivity ==
    [][ /\ (IsSome(registered_trackers) /\ IsSome(registered_trackers')
              => IF IsNone(tracked_device_poses)
                     THEN registered_trackers' = registered_trackers
                     ELSE \A s \in Slots :
                            /\ (~registered_trackers.val[s] /\ registered_trackers'.val[s]
                                  => device_is_connected(tracked_device_poses.val[s]))
                            /\ (registered_trackers.val[s] /\ ~registered_trackers'.val[s]
                                  => ~device_is_connected(tracked_device_poses.val[s])))
        /\ (IsNone(registered_trackers) /\ IsSome(registered_trackers')
              => \A s \in Slots :
                   registered_trackers'.val[s]
                     => /\ IsSome(tracked_device_poses)
                        /\ device_is_connected(tracked_device_poses.val[s]))
        /\ (IsSome(registered_trackers) => IsSome(registered_trackers')) ]_vars

\* within one frame a slot was registered and another one unregistered
C15_Witness ==
    /\ result.op = "get_removed_trackers"
    /\ SlotsOf(result.ret) # {}
    /\ frame_new # {}
    /\ \E s \in Slots : registered_trackers.val[s]


\* the capabilities the device table and the cache call for
DeclaredCapabilities(slot) ==
    [render_model_components |->
        IF slot \in runtime.named
            THEN IF runtime.component_count >= 1 THEN runtime.component_count ELSE 1
            ELSE 0,
     is_camera |-> slot \in runtime.hmds]

\* C16: get_tracker_capabilities(slot) reports max(declared component
\* count, 1) render-model components when the device exposes a render-model
\* name and 0 otherwise, and is_camera exactly for the head-mounted display
\* class; every entry get_new_trackers returns carries these capabilities of
\* its own slot.
C16_Capabilities ==
    /\ \A slot \in Slots : get_tracker_capabilities(slot) = DeclaredCapabilities(slot)
    /\ (result.op = "get_new_trackers" /\ IsSome(result.ret)
          => \A k \in 1 .. Len(result.ret.val) :
               /\ result.ret.val[k][1] \in Slots
               /\ result.ret.val[k][2] = DeclaredCapabilities(result.ret.val[k][1]))

\* get_new_trackers returned the head-mounted display, whose render model
\* is monolithic, together with the slot that exposes no render-model name
C16_Witness ==
    /\ result.op = "get_new_trackers"
    /\ {0, NumSlots - 1} \subseteq NewSlotsOf(result.ret)
    /\ runtime.component_count = 0


\* the magnitudes of the x, y, z components before they are signed
Magnitudes(m) ==
    << HalfRoot(1 + m[1][1] - m[2][2] - m[3][3]),
       HalfRoot(1 - m[1][1] + m[2][2] - m[3][3]),
       HalfRoot(1 - m[1][1] - m[2][2] + m[3][3]) >>

\* the off-diagonal differences m21 - m12, m02 - m20, m10 - m01
Differences(m) == << m[3][2] - m[2][3], m[1][3] - m[3][1], m[2][1] - m[1][2] >>

\* C17: each of the x, y, z components get_tracker_position returns keeps
\* the magnitude computed for it and is non-negative when its off-diagonal
\* difference is zero or positive and negative when the difference is
\* negative, so that a non-zero magnitude never becomes 0.
C17_ZeroIsPositive ==
    IsSampled
        => \A k \in 1 .. 3 :
             LET a == Magnitudes(SampledMatrix)[k]
                 b == Differences(SampledMatrix)[k]
                 c == result.ret.rotation[k + 1]
             IN  /\ c = copysign(a, b)
                 /\ c.sq = a.sq
                 /\ (a.sq > 0 => c.sgn = IF b >= 0 THEN 1 ELSE -1)


\* get_tracker_models returned a list of components
IsAvailable == IsModels /\ result.ret.tag = "Available"

\* the single-part load published the part without texture data
GeometryOnly(part) ==
    /\ IsOk(load_model(part))
    /\ IsSome(load_model(part).val)
    /\ IsNone(load_model(part).val.val.texture)

\* C18 as stated: a part is published without texture data only if its model
\* has no diffuse texture at all.
C18_AsStated ==
    /\ \A part \in Parts : GeometryOnly(part) => runtime.cache[part].texture = "none"
    /\ (IsAvailable
          => \A k \in 1 .. Len(result.ret.val) :
               IsNone(result.ret.val[k].texture)
                 => runtime.cache[result.ret.val[k].geometry].texture = "none")

\* C18, amended: a part whose model has a diffuse texture is never published
\* while that texture is loading (the single-part load is Pending then); it
\* is published with the texture when the texture is resident and without
\* texture data when the texture load reports an error or the model has no
\* diffuse texture.
C18_NeverWhileTextureLoads ==
    /\ \A part \in Parts :
         LET c == runtime.cache[part] IN
         load_model(part) =
             CASE c.model = "failed" -> Err
               [] c.model = "pending" -> Ok(None)
               [] c.model = "ready" /\ c.texture = "pending" -> Ok(None)
               [] c.model = "ready" /\ c.texture = "ready" ->
                    Ok(Some([component_name |-> Some(part), geometry |-> part,
                             texture |-> Some(part)]))
               [] OTHER ->
                    Ok(Some([component_name |-> Some(part), geometry |-> part,
                             texture |-> None]))
    /\ (IsAvailable
          => \A k \in 1 .. Len(result.ret.val) :
               LET c == runtime.cache[result.ret.val[k].geometry] IN
               /\ c.model = "ready"
               /\ c.texture # "pending"
               /\ (IsSome(result.ret.val[k].texture) <=> c.texture = "ready")
               /\ (IsNone(result.ret.val[k].texture) <=> c.texture \in {"none", "failed"}))

\* a component whose texture failed to load is published without texture
\* data next to a component published with its texture
C18_Witness ==
    /\ IsAvailable
    /\ \E k \in 1 .. Len(result.ret.val) :
         /\ IsNone(result.ret.val[k].texture)
         /\ runtime.cache[result.ret.val[k].geometry].texture = "failed"
    /\ \E k \in 1 .. Len(result.ret.val) : IsSome(result.ret.val[k].texture)


\* get_tracker_models was asked for a device with a render-model name whose
\* model declares no component
MonolithicCall ==
    /\ IsModels
    /\ result.arg \in runtime.named
    /\ runtime.component_count = 0

\* C19: when the render model declares zero named components,
\* get_tracker_models loads it as one monolithic part: Pending while that
\* part is in flight, Unavailable when its load fails hard, and otherwise
\* Available with exactly one entry, the whole model, without a component
\* name.
C19_Monolithic ==
    MonolithicCall
        => CASE InFlight(WholeModel) -> result.ret = Pending
             [] HardFailed(WholeModel) -> result.ret = Unavailable
             [] OTHER -> /\ result.ret.tag = "Available"
                         /\ Len(result.ret.val) = 1
                         /\ result.ret.val[1].component_name = None
                         /\ result.ret.val[1].geometry = WholeModel

\* the monolithic model was returned with its texture
C19_Witness ==
    /\ MonolithicCall
    /\ result.ret.tag = "Available"
    /\ IsSome(result.ret.val[1].texture)


\* C20: whenever get_tracker_models(slot) returns Available(list), the list
\* is as long as the render_model_components get_tracker_capabilities(slot)
\* reports, in component enumeration order and with every component name
\* present when that count is above 1; and when render_model_components is 0
\* get_tracker_models(slot) is Unavailable.
C20_LengthIsComponentCount ==
    IsModels /\ result.ret # Panic
        => LET count == get_tracker_capabilities(result.arg).render_model_components IN
           /\ (result.ret.tag = "Available"
                 => /\ Len(result.ret.val) = count
                    /\ (count > 1
                          => NamesOf(result.ret.val) = [k \in 1 .. count |-> Some(k)]))
           /\ (count = 0 => result.ret = Unavailable)


\* the slots a registered-set holds, none while it is uninitialized
RegisteredSlots(registered) ==
    IF IsSome(registered) THEN { s \in Slots : registered.val[s] } ELSE {}

\* the registered-set agrees with the connectivity of the snapshot
InStep(registered, poses) ==
    /\ IsSome(registered)
    /\ IsSome(poses)
    /\ RegisteredSlots(registered) = Connected(poses.val)

\* C21: events are the net difference between the registered-set and the
\* snapshot current at poll time. With a snapshot present, get_new_trackers
\* returns exactly the slots connected in it and not registered, and
\* get_removed_trackers exactly the registered slots not connected in it,
\* whatever snapshots came before (a slot whose connectivity changed and
\* changed back between two polls is in neither); once both have been called
\* on one snapshot the registered-set equals its connectivity, and a further
\* call on it returns None and changes nothing.
C21_NetDifference ==
    [][ /\ (result'.op = "get_new_trackers" /\ IsSome(tracked_device_poses)
              => /\ NewSlotsOf(result'.ret)
                      = Connected(tracked_device_poses.val)
                          \ RegisteredSlots(registered_trackers)
                 /\ Connected(tracked_device_poses.val)
                      \subseteq RegisteredSlots(registered_trackers')
                 /\ (result.op = "get_removed_trackers"
                       => InStep(registered_trackers', tracked_device_poses)))
        /\ (result'.op = "get_removed_trackers" /\ IsSome(tracked_device_poses)
              => /\ SlotsOf(result'.ret)
                      = RegisteredSlots(registered_trackers)
                          \ Connected(tracked_device_poses.val)
                 /\ RegisteredSlots(registered_trackers')
                      \subseteq Connected(tracked_device_poses.val)
                 /\ (result.op = "get_new_trackers"
                       => InStep(registered_trackers', tracked_device_poses)))
        /\ ( ( /\ result'.op \in {"get_new_trackers", "get_removed_trackers"}
                /\ InStep(registered_trackers, tracked_device_poses) )
              => /\ result'.ret = None
                 /\ registered_trackers' = registered_trackers) ]_vars

\* both calls returned slots on one snapshot, two of them new, and left the
\* registered-set equal to its connectivity
C21_Witness ==
    /\ result.op = "get_removed_trackers"
    /\ SlotsOf(result.ret) # {}
    /\ Cardinality(frame_new) >= 2
    /\ InStep(registered_trackers, tracked_device_poses)


\* C22: each operation changes only its own part of the backend. wait
\* changes at most the snapshot and never the registered-set;
\* get_new_trackers and get_removed_trackers change at most the
\* registered-set and never the snapshot, and get_removed_trackers leaves an
\* uninitialized registered-set uninitialized; get_tracker_position,
\* get_tracker_models, get_gl_target_info and submit_gl_target change
\* neither.
C22_OwnPartOnly ==
    [][ /\ (result'.op = "wait" => UNCHANGED registered_trackers)
        /\ (result'.op \in {"get_new_trackers", "get_removed_trackers"}
              => UNCHANGED tracked_device_poses)
        /\ (result'.op = "get_removed_trackers" /\ IsNone(registered_trackers)
              => IsNone(registered_trackers'))
        /\ (result'.op \in {"get_tracker_position", "get_tracker_models",
                            "get_gl_target_info", "submit_gl_target"}
              => UNCHANGED <<tracked_device_poses, registered_trackers>>)
        /\ result'.op \in {"wait", "get_new_trackers", "get_removed_trackers",
                           "get_tracker_position", "get_tracker_models",
                           "get_gl_target_info", "submit_gl_target"} ]_vars

\* a wait replaced the snapshot and left behind a registered-set that no
\* longer agrees with it
C22_Witness ==
    /\ result.op = "wait"
    /\ IsOk(result.info)
    /\ RegisteredSlots(registered_trackers) # {}
    /\ Connected(tracked_device_poses.val) # {}
    /\ RegisteredSlots(registered_trackers) # Connected(tracked_device_poses.val)

====
